---- MODULE Spec2Model ----
(***************************************************************************)
(* Model of GeminiRagPipeline (src/unnamed/part_001): the in-memory        *)
(* product catalog, retrieval (category match, budget and brand filters,   *)
(* stable sort by rating, truncation) and the recommendation request with  *)
(* its three external calls and the bestValue / topRated selection.        *)
(*                                                                         *)
(* Strings are sequences of one-character strings, so that toLowerCase and *)
(* includes are computed and not assumed.  Ratings are fixed-point numbers *)
(* in tenths (48 is 4.8); price / rating comparisons are done exactly by   *)
(* cross-multiplication.                                                   *)
(***************************************************************************)
EXTENDS Integers, Sequences, FiniteSets, TLC

\* ------------------------------------------------------------------ bounds
\* Longest product list handed to one indexProducts call.
MaxLen == 4
\* Longest candidate sequence the selection is run on in RankSpec.
MaxRank == 3
\* Number of translateToIndianLanguage calls that can be in flight together.
MaxCalls == 2

\* ------------------------------------------------------- program constants
\* relevantProducts.slice(0, 10)
MaxResults == 10
\* relevantProducts.slice(0, 5)
TopCount == 5
\* Product.rating is a number; the model stores rating * RatingScale.
RatingScale == 10

\* ----------------------------------------------------------------- strings
UpperToLower == [c \in {"A", "B", "C", "S"} |->
                   CASE c = "A" -> "a" [] c = "B" -> "b"
                     [] c = "C" -> "c" [] c = "S" -> "s"]

\* String.prototype.toLowerCase
toLowerCase(s) ==
  [i \in 1..Len(s) |-> IF s[i] \in DOMAIN UpperToLower THEN UpperToLower[s[i]] ELSE s[i]]

\* String.prototype.includes: sub occurs in s as a contiguous substring
includes(s, sub) ==
  \E i \in 0..(Len(s) - Len(sub)) : SubSeq(s, i + 1, i + Len(sub)) = sub

\* ---------------------------------------------------------------- products
Product(id, name, price, rating) ==
  [id |-> id, name |-> name, price |-> price, rating |-> rating]

NoProduct == Product("none", <<>>, 0, 0)

\* Catalog records used as indexing input: fractional, zero and tied
\* ratings, tied price/rating ratios, two brands.
Pool ==
  << Product("p1", <<"a", "b">>, 60, 48),
     Product("p2", <<"b">>, 10, 5),
     Product("p3", <<"S", "a">>, 30, 48),
     Product("p4", <<"s", "A", "c">>, 5, 10),
     Product("p5", <<"c", "s", "a">>, 20, 0),
     Product("p6", <<"B", "c">>, 40, 20) >>

Min(a, b) == IF a < b THEN a ELSE b

\* The product lists an indexProducts call may be given: the empty list, a
\* short and a long prefix of the pool.
Take(n) == SubSeq(Pool, 1, Min(n, Len(Pool)))
ProductLists == {Take(0), Take(MaxLen - 2), Take(MaxLen)}

\* Category keys (case-sensitive Map keys).
Categories == { <<"A", "b">>, <<"b">>, <<"c">> }

\* --------------------------------------------------------------- the query
\* SearchQuery: budget?: {min, max}, brands?: string[].  min, categories
\* and language are never read by retrieval.
Budget(has, max) == [has |-> has, max |-> max]
Brands(has, list) == [has |-> has, list |-> list]
SearchQuery(budget, brands) == [text |-> "q", budget |-> budget, brands |-> brands]

NoQuery == SearchQuery(Budget(FALSE, 0), Brands(FALSE, <<>>))

QueryBudgets == {Budget(FALSE, 0), Budget(TRUE, 0), Budget(TRUE, -1), Budget(TRUE, 25)}
QueryBrands == {Brands(FALSE, <<>>), Brands(TRUE, <<>>), Brands(TRUE, << <<"S", "A">> >>)}
Queries == {SearchQuery(b, r) : b \in QueryBudgets, r \in QueryBrands}

\* ------------------------------------------------- the extracted entities
\* The JSON object returned by extractQueryEntities.  productType and
\* budget.max may be missing; kind records the JSON type of a value.
PType(kind, str) == [kind |-> kind, str |-> str]
EBudget(kind, max) == [kind |-> kind, max |-> max]
Entities(productType, budget) == [productType |-> productType, budget |-> budget]

NoEntities == Entities(PType("absent", <<>>), EBudget("absent", 0))

ProductTypes == { PType("absent", <<>>),
                  PType("string", <<>>),
                  PType("string", <<"B">>),
                  PType("string", <<"a", "B">>),
                  PType("string", <<"C">>) }
\* budget missing, budget without max, budget.max a number
EntityBudgets == { EBudget("absent", 0), EBudget("nomax", 0),
                   EBudget("number", 0), EBudget("number", 35) }
EntitiesSet == {Entities(t, b) : t \in ProductTypes, b \in EntityBudgets}

\* Responses that parse as JSON but do not have the requested shape: the
\* literal null, a productType that is a number, a budget that is a string,
\* a budget.max that is a non-numeric string.
NullEntities == [isNull |-> TRUE]
IsNull(e) == "isNull" \in DOMAIN e
MalformedEntities ==
  { NullEntities,
    Entities(PType("number", <<>>), EBudget("absent", 0)),
    Entities(PType("string", <<"B">>), EBudget("nonobject", 0)),
    Entities(PType("string", <<"B">>), EBudget("text", 0)) }
\* (a budget of kind "nonobject" has no max; a max of kind "text" is truthy
\* but "text" > 0 is false)

\* A response that also names brands, as the extraction prompt asks for;
\* retrieveRelevantProducts never reads entities.brands.
BrandedEntities ==
  { [productType |-> PType("absent", <<>>), budget |-> EBudget("absent", 0),
     brands |-> << <<"S", "A">> >>] }

AllEntities == EntitiesSet \cup MalformedEntities \cup BrandedEntities

\* ------------------------------------------------------------- translation
\* ExtendedIndianLanguage values used; hindi, telugu, kannada, marathi and
\* gujarati take the same branch as tamil.
NativeLanguages == {"tamil"}
FallbackLanguages == {"bengali", "punjabi"}
Languages == NativeLanguages \cup FallbackLanguages
Texts == { <<"o","k">> }
TranslateCalls == 1..MaxCalls

\* `${text}:${language}`
cacheKey(text, language) == text \o <<":">> \o <<language>>

\* what geminiService.translateForIndianLanguage(text, targetLanguage)
\* resolves to: the model's text, which may differ from call to call
Variants == {"v1", "v2"}
Translation(text, targetLanguage, v) == <<targetLanguage, v>> \o text

\* `[Fallback via Hindi] ${translatedText}`
FallbackMarker == <<"[Fallback via Hindi] ">>
WithMarker(translatedText) == FallbackMarker \o translatedText

\* LocalizedContent without translatedAt
LocalizedContent(language, text, translatedText) ==
  [language |-> language, originalText |-> text, translatedText |-> translatedText]

\* ------------------------------------------------------------------- state
VARIABLES
  productDatabase,  \* Map<string, Product[]> as a sequence of entries in insertion order
  pc,               \* position of the generateRecommendations request
  query,            \* its argument
  relevantProducts, \* the array retrieveRelevantProducts resolved to
  genCtx,           \* ragContext.productData passed to geminiService.generateRecommendations
  cmpArg,           \* topProducts passed to geminiService.compareProducts
  calls,            \* number of external calls issued by the request
  extraction,       \* how retrieveRelevantProducts ended: the extractor rejected, the
                    \* filtering threw, or it resolved
  result,           \* the RAGRecommendation returned
  error,            \* the error the request was rejected with
  reindexed,        \* history: some indexProducts call overwrote an existing category
  translationCache, \* Map<string, LocalizedContent>
  tcall,            \* the translateToIndianLanguage calls in flight
  lastCall,         \* history: the translateToIndianLanguage call that settled last
  storage,          \* UserPreferencesActor: what state.storage holds under 'state'
  initCall,         \* the initialize call in flight
  updCall,          \* the updatePreferences call in flight
  getCall,          \* the getPreferences call in flight
  acked,            \* history: preferences of the last updatePreferences that returned
                    \* success, no update having started since
  got,              \* history: what the last getPreferences returned
  toolCall,         \* position of the MCP server's handleToolCall and its request
  response,         \* what the last handleToolCall returned
  invoked           \* GeminiService methods invoked by the current handleToolCall

pipeVars == <<productDatabase, pc, query, relevantProducts, genCtx, cmpArg, calls, extraction,
              result, error, reindexed>>
reqVars == <<pc, query, relevantProducts, genCtx, cmpArg, calls, extraction, result, error>>
transVars == <<translationCache, tcall, lastCall>>
actorVars == <<storage, initCall, updCall, getCall, acked, got>>
mcpVars == <<toolCall, response, invoked>>
vars == <<pipeVars, transVars, actorVars, mcpVars>>

Entry(category, products) == [category |-> category, products |-> products]

\* Map.prototype.has / get
MapHas(db, k) == \E i \in 1..Len(db) : db[i].category = k
MapGet(db, k) ==
  IF MapHas(db, k) THEN db[CHOOSE i \in 1..Len(db) : db[i].category = k].products ELSE <<>>

\* a set that merges the new list into the stored one
MapSetMerge(db, k, v) ==
  IF MapHas(db, k)
  THEN [i \in 1..Len(db) |-> IF db[i].category = k THEN Entry(k, db[i].products \o v) ELSE db[i]]
  ELSE Append(db, Entry(k, v))

\* Map.prototype.set: an existing key keeps its position, a new key is appended
MapSet(db, k, v) ==
  IF MapHas(db, k)
  THEN [i \in 1..Len(db) |-> IF db[i].category = k THEN Entry(k, v) ELSE db[i]]
  ELSE Append(db, Entry(k, v))

NoCalls == [extract |-> 0, generate |-> 0, compare |-> 0]

Recommendation(products, analysis, reasoning, alternatives, bestValue, topRated) ==
  [products |-> products, analysis |-> analysis, reasoning |-> reasoning,
   alternatives |-> alternatives, bestValue |-> bestValue, topRated |-> topRated]

NoResult == Recommendation(<<>>, "", "", <<>>, NoProduct, NoProduct)

\* --------------------------------------------------------------- retrieval
\* Array.prototype.slice(from, to), zero-based, end exclusive
slice(s, from, to) == SubSeq(s, from + 1, Min(to, Len(s)))

\* const productType = entities.productType || ""
ProductTypeOf(e) == IF e.productType.kind = "string" THEN e.productType.str ELSE <<>>

\* a test that checks one direction only
CategoryMatchesOneWay(category, productType) ==
  includes(toLowerCase(category), toLowerCase(productType))

\* the test of the catalog loop: either name contains the other, lower-cased
CategoryMatches(category, productType) ==
  \/ includes(toLowerCase(category), toLowerCase(productType))
  \/ includes(toLowerCase(productType), toLowerCase(category))

\* a resolution that lets the extracted budget win
MaxBudgetOfIntentFirst(q, e) ==
  IF e.budget.kind = "number" /\ e.budget.max # 0 THEN e.budget.max
  ELSE IF q.budget.has /\ q.budget.max # 0 THEN q.budget.max
  ELSE 0

\* query.budget?.max || entities.budget?.max || 0   (0 is falsy)
MaxBudgetOf(q, e) ==
  IF q.budget.has /\ q.budget.max # 0 THEN q.budget.max
  ELSE IF e.budget.kind = "number" /\ e.budget.max # 0 THEN e.budget.max
  ELSE 0

\* a filter that compares the wrong way round
BudgetFilterInverted(products, q, e) ==
  IF (q.budget.has \/ e.budget.kind # "absent") /\ MaxBudgetOf(q, e) > 0
  THEN SelectSeq(products, LAMBDA p : p.price >= MaxBudgetOf(q, e))
  ELSE products

\* if (query.budget || entities.budget) { ... if (maxBudget > 0) filter }
BudgetFilter(products, q, e) ==
  IF (q.budget.has \/ e.budget.kind # "absent") /\ MaxBudgetOf(q, e) > 0
  THEN SelectSeq(products, LAMBDA p : p.price <= MaxBudgetOf(q, e))
  ELSE products

\* a filter that does not look at the length of query.brands
BrandFilterNoLengthCheck(products, q) ==
  IF q.brands.has
  THEN SelectSeq(products, LAMBDA p :
         \E i \in 1..Len(q.brands.list) :
           includes(toLowerCase(p.name), toLowerCase(q.brands.list[i])))
  ELSE products

\* if (query.brands && query.brands.length > 0) keep names containing a brand
BrandFilter(products, q) ==
  IF q.brands.has /\ Len(q.brands.list) > 0
  THEN SelectSeq(products, LAMBDA p :
         \E i \in 1..Len(q.brands.list) :
           includes(toLowerCase(p.name), toLowerCase(q.brands.list[i])))
  ELSE products

\* the for-loop over productDatabase.entries(): relevantProducts.push(...filtered)
RECURSIVE AggregateFrom(_, _, _, _)
AggregateFrom(db, q, e, i) ==
  IF i > Len(db) THEN <<>>
  ELSE (IF CategoryMatches(db[i].category, ProductTypeOf(e))
        THEN BrandFilter(BudgetFilter(db[i].products, q, e), q)
        ELSE <<>>) \o AggregateFrom(db, q, e, i + 1)

\* an aggregate that keeps the first occurrence of every id only
AggregateDedup(db, q, e) ==
  LET a == AggregateFrom(db, q, e, 1)
      first == {i \in 1..Len(a) : \A j \in 1..(i - 1) : a[j].id # a[i].id}
  IN [k \in 1..Cardinality(first) |->
        a[CHOOSE i \in first : Cardinality({j \in first : j <= i}) = k]]

Aggregate(db, q, e) == AggregateFrom(db, q, e, 1)

\* an insertion that puts x in front of the elements with its own rating
InsertByRatingBeforeTies(sorted, x) ==
  LET k == Cardinality({i \in 1..Len(sorted) : sorted[i].rating > x.rating})
  IN SubSeq(sorted, 1, k) \o <<x>> \o SubSeq(sorted, k + 1, Len(sorted))

\* relevantProducts.sort((a, b) => b.rating - a.rating): stable, descending.
\* x goes behind every element whose rating is at least its own.
InsertByRating(sorted, x) ==
  LET k == Cardinality({i \in 1..Len(sorted) : sorted[i].rating >= x.rating})
  IN SubSeq(sorted, 1, k) \o <<x>> \o SubSeq(sorted, k + 1, Len(sorted))

RECURSIVE SortByRating(_)
SortByRating(s) ==
  IF s = <<>> THEN <<>>
  ELSE InsertByRating(SortByRating(SubSeq(s, 1, Len(s) - 1)), s[Len(s)])

\* a retrieval that forgets the slice
RetrieveUntruncated(db, q, e) ==
  IF "isNull" \in DOMAIN e \/ (e.productType.kind = "number" /\ Len(db) > 0) THEN <<>>
  ELSE SortByRating(Aggregate(db, q, e))

\* entities.productType of null, or toLowerCase of a number in the first
\* pass of the catalog loop, throws a TypeError
RetrieveThrows(db, e) == IsNull(e) \/ (e.productType.kind = "number" /\ Len(db) > 0)

\* the value retrieveRelevantProducts resolves to when the extractor returned
\* e; the catch block turns a throw into []
Retrieve(db, q, e) ==
  IF RetrieveThrows(db, e) THEN <<>>
  ELSE slice(SortByRating(Aggregate(db, q, e)), 0, MaxResults)

\* --------------------------------------------------------------- selection
\* a divisor without the guard
EffectiveRatingUnguarded(p) == p.rating

\* (p.rating || 1), in tenths
EffectiveRating(p) == IF p.rating # 0 THEN p.rating ELSE RatingScale

\* a.price / (a.rating || 1) > b.price / (b.rating || 1), exactly
RatioGreater(a, b) ==
  IF EffectiveRating(a) * EffectiveRating(b) > 0
  THEN a.price * EffectiveRating(b) > b.price * EffectiveRating(a)
  ELSE a.price * EffectiveRating(b) < b.price * EffectiveRating(a)

\* a reduction that lets a later candidate win a tie
RECURSIVE BestValueLastFrom(_, _, _)
BestValueLastFrom(prev, s, i) ==
  IF i > Len(s) THEN prev
  ELSE BestValueLastFrom(IF RatioGreater(s[i], prev) THEN prev ELSE s[i], s, i + 1)

\* reduce((prev, current) => ratio(prev) > ratio(current) ? current : prev)
RECURSIVE BestValueFrom(_, _, _)
BestValueFrom(prev, s, i) ==
  IF i > Len(s) THEN prev
  ELSE BestValueFrom(IF RatioGreater(prev, s[i]) THEN s[i] ELSE prev, s, i + 1)

BestValue(s) == BestValueFrom(s[1], s, 2)

\* reduce((prev, current) => prev.rating > current.rating ? prev : current)
RECURSIVE TopRatedFrom(_, _, _)
TopRatedFrom(prev, s, i) ==
  IF i > Len(s) THEN prev
  ELSE TopRatedFrom(IF prev.rating > s[i].rating THEN prev ELSE s[i], s, i + 1)

TopRated(s) == TopRatedFrom(s[1], s, 2)

\* a comparison subset that is the whole candidate list
TopProductsAll(s) == s

\* alternatives that start one position late
AlternativesLate(s) == slice(s, TopCount + 1, MaxResults)

TopProducts(s) == slice(s, 0, TopCount)
Alternatives(s) == slice(s, TopCount, MaxResults)

\* translationCache.has / get / set; the cache is never iterated, so the
\* Map is a function from the keys present to their values
EmptyCache == [k \in {} |-> k]
\* a lookup that never finds a key
CacheHasNever(cache, k) == FALSE

CacheHas(cache, k) == k \in DOMAIN cache
CacheGet(cache, k) == cache[k]

\* a set that keeps the entry a key already has
CacheSetKeepFirst(cache, k, c) ==
  [x \in DOMAIN cache \cup {k} |-> IF x = k /\ k \notin DOMAIN cache THEN c ELSE cache[x]]

\* translationCache.set(cacheKey, localizedContent)
CacheSet(cache, k, c) == [x \in DOMAIN cache \cup {k} |-> IF x = k THEN c ELSE cache[x]]

\* a call that is not running, and one suspended at its await
IdleCall == [pc |-> "idle"]
AwaitingCall(text, language, useCache, target) ==
  [pc |-> "awaiting", text |-> text, language |-> language, useCache |-> useCache,
   target |-> target]

\* the outcome of a settled call: returned is the text the promise resolved
\* to, issued tells whether translateForIndianLanguage was called
Settled(text, language, useCache, outcome, returned, issued) ==
  [text |-> text, language |-> language, useCache |-> useCache, outcome |-> outcome,
   returned |-> returned, issued |-> issued]
NoSettled == Settled(<<>>, "", FALSE, "none", <<>>, FALSE)

\* PreferenceState without updatedAt; NoState is storage.get resolving to
\* undefined
PreferenceState(preferences) == [preferences |-> preferences]
NoState == [absent |-> TRUE]
IsStored(st) == "preferences" \in DOMAIN st
DefaultPreferences == "{}"
PreferenceValues == {"{}", "{a:1}", "{b:2}"}
NoAck == "none"
NotGot == [success |-> FALSE, preferences |-> "notcalled"]

\* ------------------------------------------------ the MCP server's tools
\* The tool names the switch of handleToolCall knows, and names it does not
\* (a request whose params carry no name has name undefined).
ToolNames == {"generate_recommendations", "analyze_product_image", "compare_products",
              "translate_content", "extract_entities", "health_check"}
UnknownNames == {"list_products", "undefined"}
RequestNames == ToolNames \cup UnknownNames

\* request.params.arguments: absent, or an object.
ToolArguments == {"undefined", "object"}

\* The GeminiService method each case of the switch awaits.
ServiceMethod(name) ==
  CASE name = "generate_recommendations" -> "generateRecommendations"
    [] name = "analyze_product_image" -> "analyzeProductImage"
    [] name = "compare_products" -> "compareProducts"
    [] name = "translate_content" -> "translateForIndianLanguage"
    [] name = "extract_entities" -> "extractQueryEntities"
    [] name = "health_check" -> "healthCheck"

\* What a failing Gemini call is rejected with: an Error with a message, or a
\* thrown value that is not an Error.  Reading a property of undefined
\* arguments throws a TypeError.
GeminiErrors == { [message |-> "quota exceeded"], [thrown |-> "timeout"] }
ArgsTypeError == [message |-> "Cannot read properties of undefined"]

\* error instanceof Error ? error.message : String(error)
ErrorMessage(err) == IF "message" \in DOMAIN err THEN err.message ELSE err.thrown

\* What the service methods resolve to: text, or for extractQueryEntities the
\* parsed entities (here an object with a productType), which the handler passes
\* through JSON.stringify.
ServiceResults(name) ==
  IF name = "extract_entities" THEN {"phone"} ELSE {"text1", "text2"}
Stringify(entities) == <<"{productType:", entities, "}">>
ResultText(name, r) == IF name = "extract_entities" THEN Stringify(r) ELSE <<r>>

HealthyText == <<"Gemini API is healthy and ready">>
UnhealthyText == <<"Gemini API health check failed">>

\* The three shapes handleToolCall returns; the normal one has no isError.
NormalResponse(text) == [content |-> text]
UnknownToolResponse(name) == [content |-> <<"Unknown tool: ", name>>, isError |-> TRUE]
ErrorResponse(name, err) ==
  [content |-> <<"Error executing tool ", name, ": ", ErrorMessage(err)>>, isError |-> TRUE]

NoFailure == [none |-> TRUE]
NoResponse == [notcalled |-> TRUE]
Awaiting(name, args) == [pc |-> "awaiting", name |-> name, args |-> args]
Returned(name, args, failure) ==
  [pc |-> "returned", name |-> name, args |-> args, failure |-> failure]

McpInit ==
  /\ toolCall = [pc |-> "idle"]
  /\ response = NoResponse
  /\ invoked = <<>>

ActorInit ==
  /\ storage = NoState
  /\ initCall = [pc |-> "idle"]
  /\ updCall = [pc |-> "idle"]
  /\ getCall = [pc |-> "idle"]
  /\ acked = NoAck
  /\ got = NotGot

TransInit ==
  /\ translationCache = EmptyCache
  /\ tcall = [t \in TranslateCalls |-> IdleCall]
  /\ lastCall = NoSettled

\* ----------------------------------------------------------------- actions
Init ==
  /\ TransInit
  /\ ActorInit
  /\ McpInit
  /\ productDatabase = <<>>
  /\ pc = "idle"
  /\ query = NoQuery
  /\ relevantProducts = <<>>
  /\ genCtx = <<>>
  /\ cmpArg = <<>>
  /\ calls = NoCalls
  /\ extraction = "none"
  /\ result = NoResult
  /\ error = "none"
  /\ reindexed = FALSE

\* an indexing that exposes the list before its last product is written
IndexProductsPartial(products, category) ==
  /\ productDatabase' = MapSet(productDatabase, category, slice(products, 0, Len(products) - 1))
  /\ reindexed' = (reindexed \/ MapHas(productDatabase, category))
  /\ UNCHANGED reqVars
  /\ UNCHANGED <<transVars, actorVars, mcpVars>>

\* indexProducts(products, category)
IndexProducts(products, category) ==
  /\ productDatabase' = MapSet(productDatabase, category, products)
  /\ reindexed' = (reindexed \/ MapHas(productDatabase, category))
  /\ UNCHANGED reqVars
  /\ UNCHANGED <<transVars, actorVars, mcpVars>>

\* generateRecommendations(query) up to the await of extractQueryEntities
Start(q) ==
  /\ pc = "idle"
  /\ pc' = "extracting"
  /\ query' = q
  /\ calls' = [calls EXCEPT !.extract = @ + 1]
  /\ extraction' = "pending"
  /\ UNCHANGED <<productDatabase, reindexed, relevantProducts, genCtx, cmpArg, result, error>>
  /\ UNCHANGED <<transVars, actorVars, mcpVars>>

\* a retrieval that sorts the stored lists themselves
ExtractReturnSortsStored(e) ==
  /\ pc = "extracting"
  /\ relevantProducts' = Retrieve(productDatabase, query, e)
  /\ extraction' = IF RetrieveThrows(productDatabase, e) THEN "threw" ELSE "resolved"
  /\ pc' = "retrieved"
  /\ productDatabase' = [i \in 1..Len(productDatabase) |->
                           Entry(productDatabase[i].category, SortByRating(productDatabase[i].products))]
  /\ UNCHANGED <<reindexed, query, genCtx, cmpArg, calls, result, error>>
  /\ UNCHANGED <<transVars, actorVars, mcpVars>>

\* extractQueryEntities resolves: the catalog loop, sort and slice run
ExtractReturn(e) ==
  /\ pc = "extracting"
  /\ relevantProducts' = Retrieve(productDatabase, query, e)
  /\ extraction' = IF RetrieveThrows(productDatabase, e) THEN "threw" ELSE "resolved"
  /\ pc' = "retrieved"
  /\ UNCHANGED <<productDatabase, reindexed, query, genCtx, cmpArg, calls, result, error>>
  /\ UNCHANGED <<transVars, actorVars, mcpVars>>

\* a retrieval that lets the extractor's error escape
ExtractFailRaises ==
  /\ pc = "extracting"
  /\ relevantProducts' = <<>>
  /\ extraction' = "rejected"
  /\ pc' = "failed"
  /\ error' = "ExtractError"
  /\ UNCHANGED <<productDatabase, reindexed, query, genCtx, cmpArg, calls, result>>
  /\ UNCHANGED <<transVars, actorVars, mcpVars>>

\* extractQueryEntities rejects: the catch block returns []
ExtractFail ==
  /\ pc = "extracting"
  /\ relevantProducts' = <<>>
  /\ extraction' = "rejected"
  /\ pc' = "retrieved"
  /\ UNCHANGED <<productDatabase, reindexed, query, genCtx, cmpArg, calls, result, error>>
  /\ UNCHANGED <<transVars, actorVars, mcpVars>>

\* relevantProducts.length === 0: throw, logged and rethrown
RetrievedEmpty ==
  /\ pc = "retrieved"
  /\ Len(relevantProducts) = 0
  /\ pc' = "failed"
  /\ error' = "NoProducts"
  /\ UNCHANGED <<productDatabase, reindexed, extraction, query, relevantProducts, genCtx, cmpArg, calls, result>>
  /\ UNCHANGED <<transVars, actorVars, mcpVars>>

\* a request that goes on to the generate call with no candidates
IssueGenerateUnguarded ==
  /\ pc = "retrieved"
  /\ genCtx' = relevantProducts
  /\ calls' = [calls EXCEPT !.generate = @ + 1]
  /\ pc' = "reasoning"
  /\ UNCHANGED <<productDatabase, reindexed, extraction, query, relevantProducts, cmpArg, result, error>>
  /\ UNCHANGED <<transVars, actorVars, mcpVars>>

\* ragContext is built and geminiService.generateRecommendations is called
IssueGenerate ==
  /\ pc = "retrieved"
  /\ Len(relevantProducts) # 0
  /\ genCtx' = relevantProducts
  /\ calls' = [calls EXCEPT !.generate = @ + 1]
  /\ pc' = "reasoning"
  /\ UNCHANGED <<productDatabase, reindexed, extraction, query, relevantProducts, cmpArg, result, error>>
  /\ UNCHANGED <<transVars, actorVars, mcpVars>>

\* a generate step that returns a recommendation without comparing
GenerateReturnSkipsCompare ==
  /\ pc = "reasoning"
  /\ result' = Recommendation(TopProducts(relevantProducts), "analysis", "",
                              Alternatives(relevantProducts), BestValue(relevantProducts), TopRated(relevantProducts))
  /\ pc' = "completed"
  /\ UNCHANGED <<productDatabase, reindexed, extraction, query, relevantProducts, genCtx, cmpArg, calls, error>>
  /\ UNCHANGED <<transVars, actorVars, mcpVars>>

\* the generate call resolves: compareProducts is called with the top slice
GenerateReturn ==
  /\ pc = "reasoning"
  /\ cmpArg' = TopProducts(relevantProducts)
  /\ calls' = [calls EXCEPT !.compare = @ + 1]
  /\ pc' = "comparing"
  /\ UNCHANGED <<productDatabase, reindexed, extraction, query, relevantProducts, genCtx, result, error>>
  /\ UNCHANGED <<transVars, actorVars, mcpVars>>

\* a failure of the generate call that is swallowed: the request goes on to
\* the compare call
GenerateFailSwallowed ==
  /\ pc = "reasoning"
  /\ cmpArg' = TopProducts(relevantProducts)
  /\ calls' = [calls EXCEPT !.compare = @ + 1]
  /\ error' = "GenerateError"
  /\ pc' = "comparing"
  /\ UNCHANGED <<productDatabase, reindexed, extraction, query, relevantProducts, genCtx, result>>
  /\ UNCHANGED <<transVars, actorVars, mcpVars>>

\* the generate call rejects: logged and rethrown
GenerateFail ==
  /\ pc = "reasoning"
  /\ pc' = "failed"
  /\ error' = "GenerateError"
  /\ relevantProducts' = <<>>
  /\ genCtx' = <<>>
  /\ UNCHANGED <<productDatabase, reindexed, extraction, query, cmpArg, calls, result>>
  /\ UNCHANGED <<transVars, actorVars, mcpVars>>

\* the compare call resolves: selection, and the recommendation is returned
CompareReturn ==
  /\ pc = "comparing"
  /\ result' = Recommendation(TopProducts(relevantProducts), "analysis", "comparison",
                              Alternatives(relevantProducts), BestValue(relevantProducts), TopRated(relevantProducts))
  /\ pc' = "completed"
  /\ UNCHANGED <<productDatabase, reindexed, extraction, query, relevantProducts, genCtx, cmpArg, calls, error>>
  /\ UNCHANGED <<transVars, actorVars, mcpVars>>

\* a failed compare call that is issued again
CompareFailRetries ==
  /\ pc = "comparing"
  /\ calls' = [calls EXCEPT !.compare = @ + 1]
  /\ UNCHANGED <<productDatabase, reindexed, extraction, query, pc, relevantProducts, genCtx, cmpArg,
                 result, error>>
  /\ UNCHANGED <<transVars, actorVars, mcpVars>>

\* the compare call rejects: logged and rethrown
CompareFail ==
  /\ pc = "comparing"
  /\ pc' = "failed"
  /\ error' = "CompareError"
  /\ relevantProducts' = <<>>
  /\ genCtx' = <<>>
  /\ cmpArg' = <<>>
  /\ UNCHANGED <<productDatabase, reindexed, extraction, query, calls, result>>
  /\ UNCHANGED <<transVars, actorVars, mcpVars>>

\* the caller has the outcome; the next request may start
Finish ==
  /\ pc \in {"completed", "failed"}
  /\ pc' = "idle"
  /\ query' = NoQuery
  /\ relevantProducts' = <<>>
  /\ genCtx' = <<>>
  /\ cmpArg' = <<>>
  /\ calls' = NoCalls
  /\ extraction' = "none"
  /\ result' = NoResult
  /\ error' = "none"
  /\ UNCHANGED <<productDatabase, reindexed>>
  /\ UNCHANGED <<transVars, actorVars, mcpVars>>

Next ==
  \/ \E products \in ProductLists, category \in Categories : IndexProducts(products, category)
  \/ \E q \in Queries : Start(q)
  \/ \E e \in AllEntities : ExtractReturn(e)
  \/ ExtractFail
  \/ RetrievedEmpty
  \/ IssueGenerate
  \/ GenerateReturn
  \/ GenerateFail
  \/ CompareReturn
  \/ CompareFail
  \/ Finish

Spec == Init /\ [][Next]_vars

\* ------------------------------------------------- translation with cache
\* a target language that is always the requested one
TargetOfRequested(language) == language

\* the targetLanguage argument of translateForIndianLanguage
TargetOf(language) ==
  IF language = "bengali" \/ language = "punjabi" THEN "hindi" ELSE language

\* translatedText after the await, by the branch taken
TranslatedText(language, raw) ==
  IF language = "bengali" \/ language = "punjabi" THEN WithMarker(raw) ELSE raw

\* translateToIndianLanguage(text, language, useCache) up to its return on a
\* cache hit, or up to its await
Translate(t, text, language, useCache) ==
  /\ tcall[t].pc = "idle"
  /\ IF useCache /\ CacheHas(translationCache, cacheKey(text, language))
     THEN /\ lastCall' = Settled(text, language, useCache, "resolved",
                                 CacheGet(translationCache, cacheKey(text, language)).translatedText,
                                 FALSE)
          /\ UNCHANGED <<translationCache, tcall>>
     ELSE /\ tcall' = [tcall EXCEPT ![t] = AwaitingCall(text, language, useCache, TargetOf(language))]
          /\ UNCHANGED <<translationCache, lastCall>>
  /\ UNCHANGED <<pipeVars, actorVars, mcpVars>>

\* a return that does not store the translation
TranslateReturnNoStore(t, v) ==
  /\ tcall[t].pc = "awaiting"
  /\ LET c == tcall[t]
         translatedText == TranslatedText(c.language, Translation(c.text, c.target, v))
     IN lastCall' = Settled(c.text, c.language, c.useCache, "resolved", translatedText, TRUE)
  /\ tcall' = [tcall EXCEPT ![t] = IdleCall]
  /\ UNCHANGED translationCache
  /\ UNCHANGED <<pipeVars, actorVars, mcpVars>>

\* translateForIndianLanguage resolves: marker, translationCache.set, return
TranslateReturn(t, v) ==
  /\ tcall[t].pc = "awaiting"
  /\ LET c == tcall[t]
         translatedText == TranslatedText(c.language, Translation(c.text, c.target, v))
     IN /\ translationCache' = CacheSet(translationCache, cacheKey(c.text, c.language),
                                        LocalizedContent(c.language, c.text, translatedText))
        /\ lastCall' = Settled(c.text, c.language, c.useCache, "resolved", translatedText, TRUE)
  /\ tcall' = [tcall EXCEPT ![t] = IdleCall]
  /\ UNCHANGED <<pipeVars, actorVars, mcpVars>>

\* a failure that leaves an entry with an empty text under the key
TranslateFailCaches(t) ==
  /\ tcall[t].pc = "awaiting"
  /\ LET c == tcall[t]
     IN /\ lastCall' = Settled(c.text, c.language, c.useCache, "rejected", <<>>, TRUE)
        /\ translationCache' = CacheSet(translationCache, cacheKey(c.text, c.language),
                                        LocalizedContent(c.language, c.text, <<>>))
  /\ tcall' = [tcall EXCEPT ![t] = IdleCall]
  /\ UNCHANGED <<pipeVars, actorVars, mcpVars>>

\* translateForIndianLanguage rejects: the catch block logs and rethrows
TranslateFail(t) ==
  /\ tcall[t].pc = "awaiting"
  /\ LET c == tcall[t]
     IN lastCall' = Settled(c.text, c.language, c.useCache, "rejected", <<>>, TRUE)
  /\ tcall' = [tcall EXCEPT ![t] = IdleCall]
  /\ UNCHANGED translationCache
  /\ UNCHANGED <<pipeVars, actorVars, mcpVars>>

TransNext ==
  \/ \E t \in TranslateCalls, text \in Texts, language \in Languages, useCache \in BOOLEAN :
       Translate(t, text, language, useCache)
  \/ \E t \in TranslateCalls, v \in Variants : TranslateReturn(t, v)
  \/ \E t \in TranslateCalls : TranslateFail(t)

TransSpec == Init /\ [][TransNext]_vars

\* ------------------------------------------------- UserPreferencesActor
\* initialize() up to the await of storage.get
Initialize ==
  /\ initCall.pc = "idle"
  /\ initCall' = [pc |-> "reading"]
  /\ UNCHANGED <<storage, updCall, getCall, acked, got>>
  /\ UNCHANGED <<pipeVars, transVars, mcpVars>>

\* storage.get resolves: with a state stored initialize returns, without one
\* it goes on to the await of storage.put
InitializeRead ==
  /\ initCall.pc = "reading"
  /\ initCall' = IF IsStored(storage) THEN [pc |-> "idle"] ELSE [pc |-> "putting"]
  /\ UNCHANGED <<storage, updCall, getCall, acked, got>>
  /\ UNCHANGED <<pipeVars, transVars, mcpVars>>

\* storage.put('state', { preferences: {} }) is applied and initialize returns
InitializePut ==
  /\ initCall.pc = "putting"
  /\ storage' = PreferenceState(DefaultPreferences)
  /\ initCall' = [pc |-> "idle"]
  /\ UNCHANGED <<updCall, getCall, acked, got>>
  /\ UNCHANGED <<pipeVars, transVars, mcpVars>>

\* storage.get or storage.put rejects: initialize has no try and rejects
InitializeFail ==
  /\ initCall.pc \in {"reading", "putting"}
  /\ initCall' = [pc |-> "idle"]
  /\ UNCHANGED <<storage, updCall, getCall, acked, got>>
  /\ UNCHANGED <<pipeVars, transVars, mcpVars>>

\* updatePreferences(prefs) up to the await of storage.put
UpdatePreferences(prefs) ==
  /\ updCall.pc = "idle"
  /\ updCall' = [pc |-> "putting", prefs |-> prefs]
  /\ acked' = NoAck
  /\ UNCHANGED <<storage, initCall, getCall, got>>
  /\ UNCHANGED <<pipeVars, transVars, mcpVars>>

\* storage.put is applied and { success: true } is returned
UpdateReturn ==
  /\ updCall.pc = "putting"
  /\ storage' = PreferenceState(updCall.prefs)
  /\ acked' = updCall.prefs
  /\ updCall' = [pc |-> "idle"]
  /\ UNCHANGED <<initCall, getCall, got>>
  /\ UNCHANGED <<pipeVars, transVars, mcpVars>>

\* storage.put rejects: { success: false, error } is returned
UpdateFail ==
  /\ updCall.pc = "putting"
  /\ updCall' = [pc |-> "idle"]
  /\ UNCHANGED <<storage, initCall, getCall, acked, got>>
  /\ UNCHANGED <<pipeVars, transVars, mcpVars>>

\* getPreferences() up to the await of storage.get
GetPreferences ==
  /\ getCall.pc = "idle"
  /\ getCall' = [pc |-> "reading"]
  /\ UNCHANGED <<storage, initCall, updCall, acked, got>>
  /\ UNCHANGED <<pipeVars, transVars, mcpVars>>

\* storage.get resolves: { success: true, preferences: state?.preferences }
GetReturn ==
  /\ getCall.pc = "reading"
  /\ got' = [success |-> TRUE,
             preferences |-> IF IsStored(storage) THEN storage.preferences ELSE "undefined"]
  /\ getCall' = [pc |-> "idle"]
  /\ UNCHANGED <<storage, initCall, updCall, acked>>
  /\ UNCHANGED <<pipeVars, transVars, mcpVars>>

\* storage.get rejects: { success: false, error } is returned
GetFail ==
  /\ getCall.pc = "reading"
  /\ got' = [success |-> FALSE, preferences |-> "undefined"]
  /\ getCall' = [pc |-> "idle"]
  /\ UNCHANGED <<storage, initCall, updCall, acked>>
  /\ UNCHANGED <<pipeVars, transVars, mcpVars>>

ActorNext ==
  \/ Initialize
  \/ InitializeRead
  \/ InitializePut
  \/ InitializeFail
  \/ \E prefs \in PreferenceValues : UpdatePreferences(prefs)
  \/ UpdateReturn
  \/ UpdateFail
  \/ GetPreferences
  \/ GetReturn
  \/ GetFail

ActorSpec == Init /\ [][ActorNext]_vars

\* ------------------------------------------- the MCP server's tool handler
\* handleToolCall up to its await or its return: an unknown name returns from
\* the default branch; a case that reads a property of absent arguments throws
\* inside the try and returns from the catch; otherwise the service method is
\* invoked and awaited.  health_check reads no argument.
HandleToolCall(name, args) ==
  /\ toolCall.pc # "awaiting"
  /\ IF name \notin ToolNames
       THEN /\ response' = UnknownToolResponse(name)
            /\ invoked' = <<>>
            /\ toolCall' = Returned(name, args, NoFailure)
       ELSE IF name # "health_check" /\ args = "undefined"
         THEN /\ response' = ErrorResponse(name, ArgsTypeError)
              /\ invoked' = <<>>
              /\ toolCall' = Returned(name, args, ArgsTypeError)
         ELSE /\ invoked' = <<ServiceMethod(name)>>
              /\ toolCall' = Awaiting(name, args)
              /\ UNCHANGED response
  /\ UNCHANGED <<pipeVars, transVars, actorVars>>

\* The awaited service method resolves: the text is returned in a normal
\* response.
ToolReturn(r) ==
  /\ toolCall.pc = "awaiting"
  /\ toolCall.name # "health_check"
  /\ r \in ServiceResults(toolCall.name)
  /\ response' = NormalResponse(ResultText(toolCall.name, r))
  /\ toolCall' = Returned(toolCall.name, toolCall.args, NoFailure)
  /\ UNCHANGED <<invoked, pipeVars, transVars, actorVars>>

\* The service method's Gemini call fails: the method logs and rethrows, the
\* handler's catch returns the error response.
ToolFail(err) ==
  /\ toolCall.pc = "awaiting"
  /\ toolCall.name # "health_check"
  /\ response' = ErrorResponse(toolCall.name, err)
  /\ toolCall' = Returned(toolCall.name, toolCall.args, err)
  /\ UNCHANGED <<invoked, pipeVars, transVars, actorVars>>

\* healthCheck's generateContent resolves: healthCheck returns true.
HealthReturn ==
  /\ toolCall.pc = "awaiting"
  /\ toolCall.name = "health_check"
  /\ response' = NormalResponse(HealthyText)
  /\ toolCall' = Returned(toolCall.name, toolCall.args, NoFailure)
  /\ UNCHANGED <<invoked, pipeVars, transVars, actorVars>>

\* a healthCheck that rethrows: the handler's catch answers
HealthFailRethrown(err) ==
  /\ toolCall.pc = "awaiting"
  /\ toolCall.name = "health_check"
  /\ response' = ErrorResponse(toolCall.name, err)
  /\ toolCall' = Returned(toolCall.name, toolCall.args, err)
  /\ UNCHANGED <<invoked, pipeVars, transVars, actorVars>>

\* healthCheck's generateContent fails: healthCheck catches and returns false,
\* the handler returns the failure text in a normal response.
HealthFail(err) ==
  /\ toolCall.pc = "awaiting"
  /\ toolCall.name = "health_check"
  /\ response' = NormalResponse(UnhealthyText)
  /\ toolCall' = Returned(toolCall.name, toolCall.args, err)
  /\ UNCHANGED <<invoked, pipeVars, transVars, actorVars>>

McpNext ==
  \/ \E name \in RequestNames, args \in ToolArguments : HandleToolCall(name, args)
  \/ \E r \in UNION { ServiceResults(name) : name \in ToolNames } : ToolReturn(r)
  \/ \E err \in GeminiErrors : ToolFail(err)
  \/ HealthReturn
  \/ \E err \in GeminiErrors : HealthFail(err)

McpSpec == Init /\ [][McpNext]_vars

\* ------------------------------------------- selection over any candidates
\* The selection step applied to every candidate sequence retrieval can
\* deliver from one category holding up to MaxRank pool products.
RECURSIVE SeqsOver(_, _)
SeqsOver(S, n) ==
  IF n = 0 THEN {<<>>}
  ELSE LET shorter == SeqsOver(S, n - 1)
       IN shorter \cup {Append(s, x) : s \in {t \in shorter : Len(t) = n - 1}, x \in S}

PoolSet == {Pool[i] : i \in 1..Len(Pool)}
RankInputs == SeqsOver(PoolSet, MaxRank) \ {<<>>}

RankInit ==
  /\ TransInit
  /\ ActorInit
  /\ McpInit
  /\ \E s \in RankInputs :
       /\ productDatabase = <<Entry(<<"c">>, s)>>
       /\ relevantProducts = Retrieve(productDatabase, NoQuery, NoEntities)
  /\ pc = "comparing"
  /\ query = NoQuery
  /\ genCtx = relevantProducts
  /\ cmpArg = TopProducts(relevantProducts)
  /\ calls = [extract |-> 1, generate |-> 1, compare |-> 1]
  /\ extraction = "resolved"
  /\ result = NoResult
  /\ error = "none"
  /\ reindexed = FALSE

RankNext == CompareReturn \/ CompareFail

RankSpec == RankInit /\ [][RankNext]_vars

\* ==================================================================== claims
Range(s) == {s[i] : i \in 1..Len(s)}

\* the request holds a retrieval result
HasRetrieved == pc \in {"retrieved", "reasoning", "comparing", "completed"}

\* C1: the product sequence produced by retrieval never has more than 10
\* entries, however many products match.
C1_AtMostTen == Len(relevantProducts) <= 10

\* more than 10 products of the catalog match and retrieval has returned
C1_Witness ==
  /\ pc = "retrieved"
  /\ \E e \in EntitiesSet :
       /\ Len(Aggregate(productDatabase, query, e)) > 10
       /\ relevantProducts = Retrieve(productDatabase, query, e)

\* C2: the compare call receives exactly the first min(5, n) retrieved
\* candidates and never more than 5; the generate call receives all n
\* retrieved candidates, n <= 10.
C2_CallArguments ==
  /\ pc \in {"reasoning", "comparing", "completed"} =>
       /\ genCtx = relevantProducts
       /\ Len(genCtx) <= 10
  /\ pc \in {"comparing", "completed"} =>
       /\ Len(cmpArg) = Min(5, Len(relevantProducts))
       /\ Len(cmpArg) <= 5
       /\ \A i \in 1..Len(cmpArg) : cmpArg[i] = relevantProducts[i]

\* the compare call was issued for a request with more than 5 candidates
C2_Witness ==
  /\ pc = "comparing"
  /\ Len(relevantProducts) > 5
  /\ Len(genCtx) > Len(cmpArg)

\* C3: index(C, P2) on a category C that is already indexed leaves C holding
\* exactly P2, once, and leaves every other category as it was.
C3_ReindexReplaces ==
  [][\A c \in Categories, P \in ProductLists :
       (MapHas(productDatabase, c) /\ IndexProducts(P, c)) =>
         /\ MapGet(productDatabase', c) = P
         /\ Cardinality({i \in 1..Len(productDatabase') : productDatabase'[i].category = c}) = 1
         /\ \A k \in Categories \ {c} :
              /\ MapHas(productDatabase', k) = MapHas(productDatabase, k)
              /\ MapGet(productDatabase', k) = MapGet(productDatabase, k)]_vars

\* a category was re-indexed while another category holds products
C3_Witness ==
  /\ reindexed
  /\ Len(productDatabase) >= 2
  /\ \E i \in 1..Len(productDatabase) : productDatabase[i].products # <<>>

\* the lower-cased extracted productType, the empty string when it is missing
LowerType(e) == toLowerCase(IF e.productType.kind = "string" THEN e.productType.str ELSE <<>>)

\* category and productType are related in one of the two directions
Related(category, e) ==
  \/ includes(toLowerCase(category), LowerType(e))
  \/ includes(LowerType(e), toLowerCase(category))

\* neither the query nor the entities filter anything
Unfiltered(q, e) == ~q.budget.has /\ ~q.brands.has /\ e.budget.kind = "absent"

RelatedEntries(db, e) == {j \in 1..Len(db) : Related(db[j].category, e)}

RECURSIVE SumLen(_, _)
SumLen(db, J) ==
  IF J = {} THEN 0
  ELSE LET j == CHOOSE x \in J : TRUE IN Len(db[j].products) + SumLen(db, J \ {j})

\* C4: every product returned by retrieval was indexed under a category
\* whose lower-cased name contains the lower-cased productType or is
\* contained in it, and no more products are returned than those categories
\* hold; a category related in either direction is searched: without filters
\* and without truncation all of its products are returned.
C4_CategoryRule ==
  [][(pc = "extracting" /\ pc' = "retrieved") => \A e \in EntitiesSet :
       ExtractReturn(e) =>
         /\ \A i \in 1..Len(relevantProducts') :
              \E j \in RelatedEntries(productDatabase, e) :
                relevantProducts'[i] \in Range(productDatabase[j].products)
         /\ Len(relevantProducts') <= SumLen(productDatabase, RelatedEntries(productDatabase, e))
         /\ (Unfiltered(query, e)
               /\ SumLen(productDatabase, RelatedEntries(productDatabase, e)) <= 10) =>
              /\ Len(relevantProducts') = SumLen(productDatabase, RelatedEntries(productDatabase, e))
              /\ \A j \in RelatedEntries(productDatabase, e) :
                   Range(productDatabase[j].products) \subseteq Range(relevantProducts')]_vars

\* retrieval returned products while the catalog holds a category that is
\* related only because its name is contained in the productType, and a
\* non-empty category that is not related at all
C4_Witness ==
  /\ pc = "retrieved"
  /\ relevantProducts # <<>>
  /\ \E e \in EntitiesSet :
       /\ relevantProducts = Retrieve(productDatabase, query, e)
       /\ \E j \in 1..Len(productDatabase) :
            /\ productDatabase[j].products # <<>>
            /\ includes(LowerType(e), toLowerCase(productDatabase[j].category))
            /\ ~includes(toLowerCase(productDatabase[j].category), LowerType(e))
       /\ \E j \in 1..Len(productDatabase) :
            /\ ~Related(productDatabase[j].category, e)
            /\ ~(Range(productDatabase[j].products) \subseteq Range(relevantProducts))

BudgetFree(q) == [q EXCEPT !.budget = Budget(FALSE, 0)]
RetrieveWithMax(db, q, e, hasMax, max) ==
  LET raw == Aggregate(db, BudgetFree(q), [e EXCEPT !.budget = EBudget("absent", 0)])
      kept == IF hasMax THEN SelectSeq(raw, LAMBDA p : p.price <= max) ELSE raw
  IN slice(SortByRating(kept), 0, 10)

IntentMaxUsable(e) == e.budget.kind = "number" /\ e.budget.max > 0

FirstIndex(s, Best(_)) ==
  CHOOSE i \in 1..Len(s) : Best(i) /\ \A j \in 1..(i - 1) : ~Best(j)

\* C7 as stated: topRated has a rating >= that of every candidate, and among
\* candidates sharing the maximum rating it is the earliest.
C7_TopRatedEarliest ==
  pc = "completed" =>
    /\ \A i \in 1..Len(relevantProducts) : result.topRated.rating >= relevantProducts[i].rating
    /\ LET IsMax(i) == \A j \in 1..Len(relevantProducts) : relevantProducts[i].rating >= relevantProducts[j].rating
       IN result.topRated = relevantProducts[FirstIndex(relevantProducts, IsMax)]

\* price(a) / eff(a) <= price(b) / eff(b) for positive divisors
RatioLeq(a, ea, b, eb) == a.price * eb <= b.price * ea

\* the rating when it is > 0, otherwise 1
ClaimedEffective(p) == IF p.rating > 0 THEN p.rating ELSE 10

\* C8: bestValue is a candidate minimizing price / effectiveRating, with
\* effectiveRating the rating when rating > 0 and 1 otherwise; among
\* candidates sharing the minimal ratio it is the earliest.
C8_BestValueEarliestMin ==
  pc = "completed" =>
    LET IsMin(i) == \A j \in 1..Len(relevantProducts) :
                      RatioLeq(relevantProducts[i], ClaimedEffective(relevantProducts[i]),
                               relevantProducts[j], ClaimedEffective(relevantProducts[j]))
    IN /\ \E i \in 1..Len(relevantProducts) : IsMin(i)
       /\ result.bestValue = relevantProducts[FirstIndex(relevantProducts, IsMin)]

\* selection ran on candidates of which a later one ties the minimal ratio
\* of bestValue, one of them unrated
C8_Witness ==
  /\ pc = "completed"
  /\ \E i \in 1..Len(relevantProducts) : relevantProducts[i].rating = 0
  /\ \E i, j \in 1..Len(relevantProducts) :
       /\ i < j
       /\ relevantProducts[i] = result.bestValue
       /\ relevantProducts[j] # relevantProducts[i]
       /\ RatioLeq(relevantProducts[j], ClaimedEffective(relevantProducts[j]),
                   relevantProducts[i], ClaimedEffective(relevantProducts[i]))

\* max(rating, 1)
MaxWithOne(p) == IF p.rating > 10 THEN p.rating ELSE 10

MinimizesByMax(b, s) ==
  /\ b \in Range(s)
  /\ \A j \in 1..Len(s) : RatioLeq(b, MaxWithOne(b), s[j], MaxWithOne(s[j]))

\* C9 as stated: bestValue minimizes price / max(rating, 1) over the
\* candidates, also when ratings strictly between 0 and 1 occur.
C9_MinimizesByMax ==
  pc = "completed" => MinimizesByMax(result.bestValue, relevantProducts)

\* C9 amended: when every candidate's rating is 0 or at least 1, bestValue
\* minimizes price / max(rating, 1) over the candidates; the divisor used for
\* a candidate is never 0, so rating 0 never produces a division by zero.
C9_MinimizesByMaxNoFraction ==
  pc = "completed" =>
    /\ \A i \in 1..Len(relevantProducts) : EffectiveRating(relevantProducts[i]) # 0
    /\ (\A i \in 1..Len(relevantProducts) : relevantProducts[i].rating = 0 \/ relevantProducts[i].rating >= 10) =>
         MinimizesByMax(result.bestValue, relevantProducts)

\* selection ran on candidates without fractional ratings, one of them
\* unrated, and bestValue is not the first candidate
C9_Witness ==
  /\ pc = "completed"
  /\ \A i \in 1..Len(relevantProducts) : relevantProducts[i].rating = 0 \/ relevantProducts[i].rating >= 10
  /\ \E i \in 1..Len(relevantProducts) : relevantProducts[i].rating = 0
  /\ \E i \in 1..Len(relevantProducts) : relevantProducts[i].rating >= 10
  /\ result.bestValue # relevantProducts[1]

\* C10: bestValue and topRated are elements of products followed by
\* alternatives; products is positions 0-4 and alternatives positions 5-9 of
\* the retrieved sequence.
C10_SelectionWithinSlices ==
  pc = "completed" =>
    LET n == Len(relevantProducts)
        shown == result.products \o result.alternatives
    IN /\ result.bestValue \in Range(shown)
       /\ result.topRated \in Range(shown)
       /\ Len(result.products) = Min(5, n)
       /\ \A i \in 1..Len(result.products) : result.products[i] = relevantProducts[i]
       /\ Len(result.alternatives) = (IF n > 5 THEN Min(10, n) - 5 ELSE 0)
       /\ \A i \in 1..Len(result.alternatives) : result.alternatives[i] = relevantProducts[5 + i]

\* a recommendation over 10 candidates whose bestValue is an alternative
C10_Witness ==
  /\ pc = "completed"
  /\ Len(relevantProducts) = 10
  /\ result.bestValue \in Range(result.alternatives)
  /\ result.bestValue \notin Range(result.products)

\* ------------------------------------------------------------------- C11
\* C11: a request whose retrieval yielded no candidates leaves the retrieved
\* position only by failing with the no-products error, and a request that
\* failed with that error has issued neither the generate call nor the
\* compare call and returned no recommendation.
C11_EmptyFailsNoMatch ==
  [][ /\ (pc = "retrieved" /\ Len(relevantProducts) = 0 /\ pc' # pc)
           => (pc' = "failed" /\ error' = "NoProducts")
      /\ error' = "NoProducts"
           => (calls'.generate = 0 /\ calls'.compare = 0 /\ result' = NoResult) ]_vars

\* a request over a catalog whose only category was indexed with zero
\* products has failed with the no-products error
C11_Witness ==
  /\ pc = "failed" /\ error = "NoProducts" /\ extraction = "resolved"
  /\ Len(productDatabase) = 1 /\ productDatabase[1].products = <<>>
  /\ calls = [extract |-> 1, generate |-> 0, compare |-> 0]

\* ------------------------------------------------------------------- C12
\* C12: when the extractQueryEntities call fails, retrieval still runs over
\* the catalog with an empty intent: the candidates are those the query's
\* own filters admit from every category.
C12_FailedExtractionEmptyIntent ==
  [][(pc = "extracting" /\ pc' = "retrieved" /\ extraction' = "rejected")
       => relevantProducts' = Retrieve(productDatabase, query, NoEntities)]_vars

\* ------------------------------------------------------------------- C13
\* C13: when the extractor rejected or the filtering threw, retrieval has
\* returned the empty sequence, no call was issued after it, and the request
\* is either about to fail or has failed with the no-products error, never
\* with another error.
C13_RetrievalNeverRaises ==
  extraction \in {"rejected", "threw"}
    => /\ relevantProducts = <<>>
       /\ pc \in {"retrieved", "failed"}
       /\ pc = "retrieved" => error = "none"
       /\ pc = "failed" => error = "NoProducts"
       /\ calls.generate = 0 /\ calls.compare = 0

\* over a catalog that holds products, a request whose filtering threw has
\* failed with the no-products error
C13_Witness ==
  /\ extraction = "threw" /\ pc = "failed" /\ error = "NoProducts"
  /\ \E i \in 1..Len(productDatabase) : productDatabase[i].products # <<>>

\* ------------------------------------------------------------------- C14
\* the intent with every malformed field taken as absent
WellFormedPart(e) ==
  IF IsNull(e) THEN NoEntities
  ELSE Entities(IF e.productType.kind = "string" THEN e.productType ELSE PType("absent", <<>>),
                IF e.budget.kind \in {"nomax", "number"} THEN e.budget ELSE EBudget("absent", 0))

\* C14: for an intent with a malformed field (a null intent, a productType
\* that is not a string, a budget that is not an object, a budget max that
\* is not a number) retrieval returns what it returns for the intent with
\* that field absent.
C14_MalformedFieldNoFilter ==
  [][(pc = "extracting" /\ pc' = "retrieved")
       => \A e \in MalformedEntities :
            ExtractReturn(e) => relevantProducts' = Retrieve(productDatabase, query, WellFormedPart(e))]_vars

\* ------------------------------------------------------------------- C15
\* C15: a request on which the generate call or the compare call failed is
\* in failure with that call's error and has returned no recommendation;
\* after a generate failure no compare call was issued; and a recommendation
\* that is returned carries both the analysis and the comparison text.
C15_CallFailureReraised ==
  /\ error = "GenerateError"
       => (pc = "failed" /\ result = NoResult /\ calls.generate = 1 /\ calls.compare = 0)
  /\ error = "CompareError"
       => (pc = "failed" /\ result = NoResult /\ calls.generate = 1 /\ calls.compare = 1)
  /\ pc = "failed" => (error # "none" /\ result = NoResult)
  /\ result # NoResult
       => (pc = "completed" /\ error = "none"
           /\ result.analysis = "analysis" /\ result.reasoning = "comparison")

\* a request over a non-empty catalog failed on its generate call
C15_Witness ==
  /\ pc = "failed" /\ error = "GenerateError"
  /\ calls = [extract |-> 1, generate |-> 1, compare |-> 0]
  /\ productDatabase # <<>>

\* ------------------------------------------------------------------- C16
Order ==
  { <<"idle", "extracting">>, <<"extracting", "retrieved">>,
    <<"retrieved", "reasoning">>, <<"retrieved", "failed">>,
    <<"reasoning", "comparing">>, <<"reasoning", "failed">>,
    <<"comparing", "completed">>, <<"comparing", "failed">>,
    <<"completed", "idle">>, <<"failed", "idle">> }

\* C16: a request moves only along extraction, retrieval, generate call,
\* compare call, selection and completion (or into failure); the generate
\* call is issued when leaving retrieval, the compare call only in the step
\* in which the generate call returns, and a recommendation is returned only
\* in the step in which the compare call returns, both calls issued once.
C16_StepOrder ==
  [][ /\ pc' # pc => <<pc, pc'>> \in Order
      /\ calls'.extract > calls.extract => (pc = "idle" /\ pc' = "extracting")
      /\ calls'.generate > calls.generate
           => (pc = "retrieved" /\ pc' = "reasoning" /\ calls.extract = 1)
      /\ calls'.compare > calls.compare
           => (pc = "reasoning" /\ pc' = "comparing" /\ calls.generate = 1 /\ error' = "none")
      /\ (result = NoResult /\ result' # NoResult)
           => (pc = "comparing" /\ pc' = "completed"
               /\ calls = [extract |-> 1, generate |-> 1, compare |-> 1]) ]_vars

\* a request has gone through every step and returned its recommendation
C16_Witness ==
  /\ pc = "completed" /\ result # NoResult
  /\ calls = [extract |-> 1, generate |-> 1, compare |-> 1]
  /\ result.products = cmpArg

\* ------------------------------------------------------------------- C17
\* C17: for a query with a negative budget max the extraction call is never
\* issued and the catalog is never scanned: the request is rejected before
\* retrieval.
C17_NegativeBudgetRejected ==
  (query.budget.has /\ query.budget.max < 0)
    => (calls.extract = 0 /\ pc \notin {"extracting", "retrieved", "reasoning", "comparing", "completed"})

\* ------------------------------------------------------------------- C18
\* no translateToIndianLanguage call is suspended at its await
NoneInFlight == \A t \in TranslateCalls : tcall[t].pc = "idle"

\* C18: when a call with caching enabled has issued the underlying call and
\* returned, and the next call, started after it settled, is for the same
\* text and language with caching enabled, that second call issues no
\* underlying call and returns the text the first one returned: one
\* underlying call for the two.
C18_SecondCallFromCache ==
  [][\A t \in TranslateCalls, text \in Texts, language \in Languages :
       ( /\ NoneInFlight
         /\ lastCall = Settled(text, language, TRUE, "resolved", lastCall.returned, TRUE)
         /\ Translate(t, text, language, TRUE) )
       => /\ tcall' = tcall
          /\ lastCall' = Settled(text, language, TRUE, "resolved", lastCall.returned, FALSE)]_vars

\* the call that settled last was served from the cache with the text stored
\* by an earlier call
C18_Witness ==
  /\ NoneInFlight
  /\ lastCall.outcome = "resolved" /\ lastCall.useCache /\ ~lastCall.issued
  /\ CacheHas(translationCache, cacheKey(lastCall.text, lastCall.language))
  /\ lastCall.returned = CacheGet(translationCache, cacheKey(lastCall.text, lastCall.language)).translatedText

\* ------------------------------------------------------------------- C19
\* C19: a call for bengali or punjabi waits on an underlying call whose
\* target is hindi and resolves to the marker followed by a hindi
\* translation of its text; a call for a natively supported language waits
\* on an underlying call for that language and resolves to a translation
\* into it, without the marker.
C19_FallbackViaHindi ==
  /\ \A t \in TranslateCalls :
       tcall[t].pc = "awaiting"
         => tcall[t].target = (IF tcall[t].language \in FallbackLanguages
                               THEN "hindi" ELSE tcall[t].language)
  /\ lastCall.outcome = "resolved"
       => \E v \in Variants :
            lastCall.returned =
              (IF lastCall.language \in FallbackLanguages
               THEN <<"[Fallback via Hindi] ">> \o Translation(lastCall.text, "hindi", v)
               ELSE Translation(lastCall.text, lastCall.language, v))

\* a bengali call has resolved, through its own underlying call, to the
\* marker followed by a hindi translation
C19_Witness ==
  /\ lastCall.outcome = "resolved" /\ lastCall.issued /\ lastCall.language = "bengali"
  /\ Head(lastCall.returned) = "[Fallback via Hindi] "
  /\ lastCall.returned[2] = "hindi"

\* ------------------------------------------------------------------- C20
\* the products stored under some category
Stored(db) == UNION {Range(db[i].products) : i \in 1..Len(db)}

\* C20: every list the catalog holds is a list handed to indexProducts, whole;
\* an indexProducts step changes nothing a request in flight holds; and the
\* candidates a retrieval step delivers are all in the lists the catalog
\* holds at that step.
C20_WholeListsOnly ==
  [][ /\ \A i \in 1..Len(productDatabase') : productDatabase'[i].products \in ProductLists
      /\ productDatabase' # productDatabase => UNCHANGED reqVars
      /\ (pc = "extracting" /\ pc' = "retrieved")
           => Range(relevantProducts') \subseteq Stored(productDatabase) ]_vars

\* a request in flight holds the candidates of the old list of the only
\* category, which was re-indexed with a shorter non-empty list meanwhile
C20_Witness ==
  /\ pc = "reasoning" /\ reindexed
  /\ Len(productDatabase) = 1
  /\ productDatabase[1].products # <<>>
  /\ Len(relevantProducts) > Len(productDatabase[1].products)

\* ------------------------------------------------------------------- C21
\* the complete values a call for (text, language) can produce
Produced(text, language) ==
  { LocalizedContent(language, text,
                     IF language \in FallbackLanguages
                     THEN <<"[Fallback via Hindi] ">> \o Translation(text, "hindi", v)
                     ELSE Translation(text, language, v)) : v \in Variants }

\* C21: whatever calls overlap, the entry of a key is the complete value of
\* the call for that key that wrote last: a returning call leaves its own
\* complete value under its key and every other key as it was, a step in
\* which no suspended call resumes leaves the cache as it was, and every entry is a
\* value some call for its key can produce.
C21_LastWriteStands ==
  [][ /\ \A t \in TranslateCalls, v \in Variants :
           TranslateReturn(t, v)
             => /\ CacheGet(translationCache', cacheKey(tcall[t].text, tcall[t].language))
                     = LocalizedContent(tcall[t].language, tcall[t].text, lastCall'.returned)
                /\ \A k \in DOMAIN translationCache' \ {cacheKey(tcall[t].text, tcall[t].language)} :
                     k \in DOMAIN translationCache /\ translationCache'[k] = translationCache[k]
      /\ (\A t \in TranslateCalls : tcall[t].pc # "awaiting" \/ tcall'[t] = tcall[t])
           => translationCache' = translationCache
      /\ \A k \in DOMAIN translationCache' :
           \E text \in Texts, language \in Languages :
             k = cacheKey(text, language) /\ translationCache'[k] \in Produced(text, language) ]_vars

\* two calls for one key overlapped: one is still suspended at its await,
\* having found the key absent, while the other has written the key and
\* was the last call to settle
C21_Witness ==
  \E t \in TranslateCalls :
    /\ tcall[t].pc = "awaiting" /\ tcall[t].useCache
    /\ CacheHas(translationCache, cacheKey(tcall[t].text, tcall[t].language))
    /\ lastCall = Settled(tcall[t].text, tcall[t].language, lastCall.useCache, "resolved",
                          lastCall.returned, TRUE)

RECURSIVE CatalogOrderFrom(_, _)
CatalogOrderFrom(db, i) ==
  IF i > Len(db) THEN <<>> ELSE db[i].products \o CatalogOrderFrom(db, i + 1)

OfRating(s, r) == SelectSeq(s, LAMBDA p : p.rating = r)

\* a is b with some elements left out
RECURSIVE IsSubsequence(_, _)
IsSubsequence(a, b) ==
  IF a = <<>> THEN TRUE
  ELSE IF b = <<>> THEN FALSE
  ELSE IF Head(a) = Head(b) THEN IsSubsequence(Tail(a), Tail(b))
  ELSE IsSubsequence(a, Tail(b))

\* C23: the sequence a retrieval step delivers is in descending order of
\* rating, and its candidates of one rating stand in the order in which the
\* catalog holds them (categories in insertion order, then position in the
\* category), which is the order the aggregate sequence has them in.
C23_StableDescending ==
  [][(pc = "extracting" /\ pc' = "retrieved")
       => /\ \A i \in 1..Len(relevantProducts') : \A j \in i..Len(relevantProducts') :
               relevantProducts'[i].rating >= relevantProducts'[j].rating
          /\ \A r \in {relevantProducts'[i].rating : i \in 1..Len(relevantProducts')} :
               IsSubsequence(OfRating(relevantProducts', r),
                             OfRating(CatalogOrderFrom(productDatabase, 1), r))]_vars

\* retrieval delivered two different candidates of one rating that were
\* indexed with a lower-rated product between them
C23_Witness ==
  /\ pc = "retrieved" /\ Len(productDatabase) = 1
  /\ Len(relevantProducts) >= 3
  /\ relevantProducts[1].rating = relevantProducts[2].rating
  /\ relevantProducts[1] # relevantProducts[2]
  /\ relevantProducts[1] = productDatabase[1].products[1]
  /\ relevantProducts[2] = productDatabase[1].products[3]

\* ------------------------------------------------------------------- C24
\* the products of the searched categories that pass the budget filter, in
\* catalog order, whatever their names
RECURSIVE AnyBrandFrom(_, _, _, _)
AnyBrandFrom(db, q, e, i) ==
  IF i > Len(db) THEN <<>>
  ELSE (IF Related(db[i].category, e) THEN BudgetFilter(db[i].products, q, e) ELSE <<>>)
         \o AnyBrandFrom(db, q, e, i + 1)

\* C24: when query.brands is non-empty, the name of every retrieved product
\* contains, lower-cased, a lower-cased requested brand; when query.brands is
\* absent or empty, retrieval delivers what the searched categories hold
\* within the budget, sorted and truncated, whatever the product names and
\* whatever brands the extracted intent names.
C24_BrandFilter ==
  /\ (HasRetrieved /\ query.brands.has /\ query.brands.list # <<>>)
       => \A i \in 1..Len(relevantProducts) :
            \E b \in Range(query.brands.list) :
              includes(toLowerCase(relevantProducts[i].name), toLowerCase(b))
  /\ (pc = "extracting" /\ (~query.brands.has \/ query.brands.list = <<>>))
       => \A e \in EntitiesSet \cup BrandedEntities :
            Retrieve(productDatabase, query, e)
              = slice(SortByRating(AnyBrandFrom(productDatabase, query, e, 1)), 0, 10)

\* retrieval for the brand "SA" delivered some products of the only category
\* and left others out
C24_Witness ==
  /\ pc = "retrieved" /\ extraction = "resolved"
  /\ query.brands = Brands(TRUE, << <<"S", "A">> >>) /\ ~query.budget.has
  /\ Len(productDatabase) = 1
  /\ relevantProducts # <<>>
  /\ Len(relevantProducts) < Len(productDatabase[1].products)
  /\ \E i \in 1..Len(relevantProducts) : relevantProducts[i].name = <<"s", "A", "c">>

\* ------------------------------------------------------------------- C25
Count(s, p) == Cardinality({i \in 1..Len(s) : s[i] = p})

\* the related categories that hold p, when p passes the budget and brand
\* filters (none otherwise)
Holding(db, q, e, p) ==
  IF BrandFilter(BudgetFilter(<<p>>, q, e), q) = <<>> THEN {}
  ELSE {j \in RelatedEntries(db, e) : p \in Range(db[j].products)}

\* C25: for every catalog and query of a request awaiting its extraction and
\* every intent, a product that passes the filters is in the aggregate
\* sequence once for every related category holding it, and as often in the
\* delivered sequence when no more than 10 candidates were aggregated.
C25_NoDeduplication ==
  pc = "extracting"
    => \A e \in EntitiesSet : \A p \in PoolSet :
         /\ Count(Aggregate(productDatabase, query, e), p)
              = Cardinality(Holding(productDatabase, query, e, p))
         /\ Len(Aggregate(productDatabase, query, e)) <= 10
              => Count(Retrieve(productDatabase, query, e), p)
                   = Cardinality(Holding(productDatabase, query, e, p))

\* retrieval delivered one product twice, from two categories
C25_Witness ==
  /\ pc = "retrieved" /\ Len(productDatabase) >= 2
  /\ \E i, j \in 1..Len(relevantProducts) :
       i # j /\ relevantProducts[i].id = relevantProducts[j].id

\* ------------------------------------------------------------------- C26
\* C26: a request has issued each of its three calls at most once at every
\* step, and a request that has failed issues no call any more: its counts
\* stay as they are until the caller has the error.
C26_NoRetry ==
  [][ /\ calls'.extract <= 1 /\ calls'.generate <= 1 /\ calls'.compare <= 1
      /\ pc = "failed" => (calls' = calls \/ (pc' = "idle" /\ calls' = NoCalls))
      /\ extraction = "rejected" => calls'.extract <= calls.extract ]_vars

\* a request failed on its compare call, having issued each call once
C26_Witness ==
  /\ pc = "failed" /\ error = "CompareError"
  /\ calls = [extract |-> 1, generate |-> 1, compare |-> 1]

\* ------------------------------------------------------------------- C27
\* C27: a call whose underlying call fails is rejected, returns no text and
\* leaves the cache exactly as it was; and when the call that settled last
\* was rejected and its key is not cached, a next call for that key, with
\* or without caching, issues an underlying call.
C27_FailureLeavesCache ==
  [][ /\ \A t \in TranslateCalls :
           TranslateFail(t)
             => /\ translationCache' = translationCache
                /\ lastCall' = Settled(tcall[t].text, tcall[t].language, tcall[t].useCache,
                                       "rejected", <<>>, TRUE)
      /\ \A t \in TranslateCalls, useCache \in BOOLEAN :
           ( /\ lastCall.outcome = "rejected"
             /\ ~CacheHas(translationCache, cacheKey(lastCall.text, lastCall.language))
             /\ Translate(t, lastCall.text, lastCall.language, useCache) )
           => /\ tcall'[t].pc = "awaiting"
              /\ tcall'[t].text = lastCall.text /\ tcall'[t].language = lastCall.language ]_vars

\* a call with caching was rejected; its key is not cached while another key
\* is, and a fresh call for the key is suspended at its await
C27_Witness ==
  /\ lastCall.outcome = "rejected" /\ lastCall.useCache
  /\ ~CacheHas(translationCache, cacheKey(lastCall.text, lastCall.language))
  /\ translationCache # EmptyCache
  /\ \E t \in TranslateCalls :
       /\ tcall[t].pc = "awaiting" /\ tcall[t].useCache
       /\ tcall[t].text = lastCall.text /\ tcall[t].language = lastCall.language
  /\ \E t \in TranslateCalls : tcall[t].pc = "idle"

\* ------------------------------------------------------------------- C28
\* C28 as stated: no two calls with caching enabled are ever waiting on
\* underlying calls for the same (text, language) key.
C28_OneCallPerKey ==
  \A s, t \in TranslateCalls :
    ( /\ s # t
      /\ tcall[s].pc = "awaiting" /\ tcall[s].useCache
      /\ tcall[t].pc = "awaiting" /\ tcall[t].useCache )
    => cacheKey(tcall[s].text, tcall[s].language) # cacheKey(tcall[t].text, tcall[t].language)

\* C28 amended: a call with caching enabled issues an underlying call exactly
\* when its key is not in the cache at the moment the call starts; the key
\* is written only when an underlying call returns, so a call that starts
\* after an earlier call for the key has returned issues none, while a call
\* that starts before then issues its own.
C28_CallIffKeyAbsentAtStart ==
  [][ /\ \A t \in TranslateCalls, text \in Texts, language \in Languages :
           Translate(t, text, language, TRUE)
             => ((tcall'[t].pc = "awaiting")
                   <=> (cacheKey(text, language) \notin DOMAIN translationCache))
      /\ \A k \in DOMAIN translationCache' \ DOMAIN translationCache :
           \E t \in TranslateCalls :
             /\ tcall[t].pc = "awaiting" /\ tcall'[t].pc = "idle"
             /\ k = cacheKey(tcall[t].text, tcall[t].language)
             /\ lastCall'.outcome = "resolved" ]_vars

\* two calls with caching enabled are waiting on underlying calls for one key
C28_Witness ==
  \E s, t \in TranslateCalls :
    /\ s # t
    /\ tcall[s].pc = "awaiting" /\ tcall[s].useCache
    /\ tcall[t] = tcall[s]
    /\ ~CacheHas(translationCache, cacheKey(tcall[s].text, tcall[s].language))

\* ------------------------------------------------------------------- C29
\* C29: a getPreferences that returns success after an updatePreferences(p)
\* has returned success, no other update having started since, returns p,
\* whatever initialize calls are interleaved; and initialize writes the
\* default state only when no state is stored.
C29_UpdateThenGet ==
  [][ /\ (getCall.pc = "reading" /\ getCall'.pc = "idle" /\ got'.success /\ acked # NoAck)
           => got'.preferences = acked
      /\ (initCall.pc = "putting" /\ storage' # storage) => ~IsStored(storage) ]_vars

\* C30: handleToolCall never raises, whatever the tool name and arguments:
\* every call that has returned left a response with content.  An unknown tool
\* name gives a response with isError true and no GeminiService method was
\* invoked; a tool whose Gemini call failed gives a response with isError true
\* whose text carries the error's message; a failed health_check gives a
\* response without isError carrying the failure text.
C30_ToolCallNeverRaises ==
  toolCall.pc = "returned" =>
    /\ "content" \in DOMAIN response
    /\ toolCall.name \notin ToolNames =>
         /\ "isError" \in DOMAIN response /\ response.isError
         /\ invoked = <<>>
    /\ (toolCall.name \in ToolNames \ {"health_check"} /\ toolCall.failure \in GeminiErrors) =>
         /\ "isError" \in DOMAIN response /\ response.isError
         /\ response.content[Len(response.content)] = ErrorMessage(toolCall.failure)
         /\ response.content[2] = toolCall.name
    /\ (toolCall.name = "health_check" /\ toolCall.failure \in GeminiErrors) =>
         /\ "isError" \notin DOMAIN response
         /\ response.content = UnhealthyText

\* a health_check whose Gemini call failed with a thrown non-Error has returned
C30_Witness ==
  /\ toolCall.pc = "returned"
  /\ toolCall.name = "health_check"
  /\ toolCall.failure = [thrown |-> "timeout"]
  /\ response = NormalResponse(UnhealthyText)
====
